---- MODULE Spec2Model ----
(***************************************************************************)
(* Blood Matching Model Server (model_server.py).                          *)
(*                                                                         *)
(* JSON objects are TLA+ records whose DOMAIN is the set of keys present,  *)
(* so dict.get(k, default) is Get(d, k, default).  A JSON value that is    *)
(* not an object (a string, a number, null) is a record with the single    *)
(* field pytype; calling .get on it raises AttributeError.                 *)
(*                                                                         *)
(* Numbers: a score or a model output x is the integer x * 10000, so that  *)
(* 79.96 is 799600 and the probability 0.7996 is 7996.                     *)
(*                                                                         *)
(* A Python call that may raise returns [raised, val].                     *)
(***************************************************************************)
EXTENDS Integers, Sequences, FiniteSets, TLC

VARIABLES model, clock, request, response, previous, log

vars == <<model, clock, request, response, previous, log>>

\* ------------------------------------------------------------------ bounds

\* Longest availableDonors list of a /match request.
MaxDonors == 2

\* Seconds the clock np.datetime64('now') can advance.
MaxClock == 1

\* ------------------------------------------------------------- python glue

Pts(n) == n * 10000

Ok(v) == [raised |-> FALSE, val |-> v]

Raise == [raised |-> TRUE, val |-> 0]

IsMapping(x) == "pytype" \notin DOMAIN x

NotAMapping == [pytype |-> "str"]

Get(d, k, default) == IF k \in DOMAIN d THEN d[k] ELSE default

\* dict.get(k) with a flag value: absent is None, which is falsy.
Flag(d, k) == Get(d, k, FALSE)

Min(a, b) == IF a <= b THEN a ELSE b

Max(a, b) == IF a >= b THEN a ELSE b

RECURSIVE IndexOf(_, _, _)
IndexOf(s, x, i) ==
    IF i > Len(s) THEN 0
    ELSE IF s[i] = x THEN i
    ELSE IndexOf(s, x, i + 1)

InSeq(x, s) == \E i \in 1..Len(s) : s[i] = x

\* ------------------------------------------------- blood type compatibility

BloodTypes == {"O-", "O+", "A-", "A+", "B-", "B+", "AB-", "AB+"}

\* Key order of the BLOOD_COMPATIBILITY dict.
DonorTypeOrder == <<"O-", "O+", "A-", "A+", "B-", "B+", "AB-", "AB+">>

BLOOD_COMPATIBILITY_ONegNotToONeg ==
    [dt \in BloodTypes |->
        CASE dt = "O-"  -> <<"O+", "A-", "A+", "B-", "B+", "AB-", "AB+">>
          [] dt = "O+"  -> <<"O+", "A+", "B+", "AB+">>
          [] dt = "A-"  -> <<"A-", "A+", "AB-", "AB+">>
          [] dt = "A+"  -> <<"A+", "AB+">>
          [] dt = "B-"  -> <<"B-", "B+", "AB-", "AB+">>
          [] dt = "B+"  -> <<"B+", "AB+">>
          [] dt = "AB-" -> <<"AB-", "AB+">>
          [] dt = "AB+" -> <<"AB+">>]

BLOOD_COMPATIBILITY ==
    [dt \in BloodTypes |->
        CASE dt = "O-"  -> <<"O-", "O+", "A-", "A+", "B-", "B+", "AB-", "AB+">>
          [] dt = "O+"  -> <<"O+", "A+", "B+", "AB+">>
          [] dt = "A-"  -> <<"A-", "A+", "AB-", "AB+">>
          [] dt = "A+"  -> <<"A+", "AB+">>
          [] dt = "B-"  -> <<"B-", "B+", "AB-", "AB+">>
          [] dt = "B+"  -> <<"B+", "AB+">>
          [] dt = "AB-" -> <<"AB-", "AB+">>
          [] dt = "AB+" -> <<"AB+">>]

CanDonateTo(donor_type, recipient_blood_type) ==
    InSeq(recipient_blood_type, BLOOD_COMPATIBILITY[donor_type])

get_compatible_donor_types(recipient_blood_type) ==
    SelectSeq(DonorTypeOrder,
              LAMBDA donor_type : CanDonateTo(donor_type, recipient_blood_type))

\* ------------------------------------------------------ eligibility screen

HardStopChecks ==
    << <<"hivStatus", "HIV positive">>,
       <<"hepatitisB", "Hepatitis B">>,
       <<"hepatitisC", "Hepatitis C">>,
       <<"htlv", "HTLV positive">>,
       <<"ivDrugUse", "IV drug use history">> >>

TemporaryChecks ==
    << <<"recentColdFlu", "Recent cold/flu">>,
       <<"recentTattoo", "Recent tattoo">>,
       <<"recentSurgery", "Recent surgery">>,
       <<"pregnant", "Pregnant">>,
       <<"recentVaccination", "Recent vaccination">>,
       <<"recentTravel", "Recent travel">> >>

RECURSIVE Reasons(_, _, _)
Reasons(checks, donor, i) ==
    IF i > Len(checks) THEN <<>>
    ELSE (IF Flag(donor, checks[i][1]) THEN <<checks[i][2]>> ELSE <<>>)
         \o Reasons(checks, donor, i + 1)

check_hard_stops_ignoring_htlv(donor) ==
    Reasons(SelectSeq(HardStopChecks, LAMBDA c : c[1] # "htlv"), donor, 1)

check_hard_stops(donor) == Reasons(HardStopChecks, donor, 1)

check_temporary_deferrals(donor) == Reasons(TemporaryChecks, donor, 1)

\* ---------------------------------------------------------- feature encoder

FeatureBloodTypes == <<"A+", "A-", "B+", "B-", "AB+", "AB-", "O+", "O-">>

UrgencyOrder == <<"standard", "medium", "high", "critical">>

Bit(b) == IF b THEN 1 ELSE 0

\* blood_types.index(x) if x in blood_types else 0, zero-based.
BloodTypeIndex(rec) ==
    IF InSeq(Get(rec, "bloodType", "None"), FeatureBloodTypes)
    THEN IndexOf(FeatureBloodTypes, Get(rec, "bloodType", "O+"), 1) - 1
    ELSE 0

\* rec.get('rhVariants', {}).get(v) for the four variants.
RhFeatures(rec) ==
    LET rh == Get(rec, "rhVariants", [x \in {} |-> FALSE])
    IN  IF ~IsMapping(rh) THEN Raise
        ELSE Ok(<<Bit(Flag(rh, "C")), Bit(Flag(rh, "c")),
                  Bit(Flag(rh, "E")), Bit(Flag(rh, "e"))>>)

prepare_features(donor, recipient) ==
    LET drh == RhFeatures(donor)
        rrh == RhFeatures(recipient)
        urgency == Get(recipient, "urgency", "standard")
    IN  IF drh.raised THEN Raise
        ELSE IF ~InSeq(urgency, UrgencyOrder) THEN Raise
        ELSE IF rrh.raised THEN Raise
        ELSE Ok(<<BloodTypeIndex(donor),
                  Get(donor, "age", 30),
                  Bit(Get(donor, "gender", "None") = "Male"),
                  Get(donor, "weight", 70),
                  Get(donor, "hemoglobinLevel", 14),
                  Get(donor, "totalDonations", 0),
                  Bit(Flag(donor, "willingForEmergency"))>>
                \o drh.val \o
                <<Bit(Flag(donor, "kell")),
                  Bit(Flag(donor, "duffy")),
                  Bit(Flag(donor, "kidd")),
                  BloodTypeIndex(recipient),
                  Get(recipient, "age", 30),
                  Bit(Get(recipient, "gender", "None") = "Male"),
                  Get(recipient, "patientWeight", 70),
                  Get(recipient, "units", 1),
                  IndexOf(UrgencyOrder, urgency, 1) - 1>>
                \o rrh.val \o
                <<Bit(Flag(recipient, "kell")),
                  Bit(Flag(recipient, "duffy")),
                  Bit(Flag(recipient, "kidd")),
                  Bit(Flag(recipient, "irradiatedBlood")),
                  Bit(Flag(recipient, "cmvNegative")),
                  Bit(Flag(recipient, "washedCells")),
                  Bit(Flag(recipient, "leukocyteReduced"))>>)

\* ------------------------------------------------------- rule-based scorer

RhVariantOrder == <<"C", "c", "E", "e">>

\* The loop over ['C','c','E','e']: recipient_rh.get(v) and donor_rh.get(v),
\* the second call made only when the first is truthy.  score is what the
\* loop has added so far.
RECURSIVE RhLoop(_, _, _, _)
RhLoop(donor_rh, recipient_rh, i, score) ==
    IF i > Len(RhVariantOrder) THEN Ok(score)
    ELSE IF ~IsMapping(recipient_rh) THEN Raise
    ELSE IF Flag(recipient_rh, RhVariantOrder[i]) /\ ~IsMapping(donor_rh) THEN Raise
    ELSE RhLoop(donor_rh, recipient_rh, i + 1,
                score + (IF Flag(recipient_rh, RhVariantOrder[i])
                            /\ Flag(donor_rh, RhVariantOrder[i])
                         THEN Pts(3) ELSE 0))

RhBonus(donor, recipient) ==
    RhLoop(Get(donor, "rhVariants", [x \in {} |-> FALSE]),
           Get(recipient, "rhVariants", [x \in {} |-> FALSE]), 1, 0)

\* if recipient.get(k) and donor.get(k): score += 3
AntigenBonus(donor, recipient, k) ==
    IF Flag(recipient, k) /\ Flag(donor, k) THEN Pts(3) ELSE 0

ExactTypeBonus(donor, recipient) ==
    IF Get(donor, "bloodType", "None") = Get(recipient, "bloodType", "None")
    THEN Pts(20) ELSE 0

ExperienceBonus_AtLeastFive(donor) ==
    IF Get(donor, "totalDonations", 0) >= 5 THEN Pts(5) ELSE 0

ExperienceBonus(donor) ==
    IF Get(donor, "totalDonations", 0) > 5 THEN Pts(5) ELSE 0

EmergencyBonus(donor, recipient) ==
    IF Get(recipient, "urgency", "None") = "critical"
       /\ Flag(donor, "willingForEmergency")
    THEN Pts(10) ELSE 0

\* The additions to score after the antigen loop has returned rh.
RuleScoreAfterRh(donor, recipient, rh) ==
    Min(Pts(100),
        Pts(50) + ExactTypeBonus(donor, recipient) + rh
        + AntigenBonus(donor, recipient, "kell")
        + AntigenBonus(donor, recipient, "duffy")
        + AntigenBonus(donor, recipient, "kidd")
        + ExperienceBonus(donor)
        + EmergencyBonus(donor, recipient))

calculate_rule_based_score(donor, recipient) ==
    IF RhBonus(donor, recipient).raised THEN Raise
    ELSE Ok(RuleScoreAfterRh(donor, recipient, RhBonus(donor, recipient).val))

\* ------------------------------------------------------------ learned model

\* model = None
NoModel == [kind |-> "none"]

\* The column of the feature vector the unpickled models below read:
\* donor_willing_emergency.
FeatureKey(features) == features[7]

\* What pickle.load can return: a classifier with predict_proba over two
\* classes or one, a regressor with predict only, an object with neither
\* method, and a model whose call raises (feature shape mismatch).  A table
\* maps the feature key to the model's output.
ModelHandles ==
    { [kind |-> "proba", classes |-> 2, table |-> <<4996, 7996>>],
      [kind |-> "proba", classes |-> 1, table |-> <<9000, 7996>>],
      [kind |-> "predict", table |-> <<-5000, 1500000>>],
      [kind |-> "predict", table |-> <<799600, 5000>>],
      [kind |-> "nomethod"],
      [kind |-> "raises"] }

HasPredictProba(m) == m.kind \in {"proba", "raises"}

\* model.predict_proba(features)[0]
PredictProba(m, features) ==
    LET p == m.table[FeatureKey(features) + 1]
    IN  IF m.classes > 1 THEN <<10000 - p, p>> ELSE <<p>>

\* model.predict(features)[0]
ModelPredict(m, features) == m.table[FeatureKey(features) + 1]

\* The body of the try around the model call.
ModelScore(m, features) ==
    IF HasPredictProba(m)
    THEN IF m.kind = "raises" THEN Raise
         ELSE LET proba == PredictProba(m, features)
              IN  Ok(IF Len(proba) > 1 THEN proba[2] * 100 ELSE proba[1] * 100)
    ELSE IF m.kind # "predict" THEN Raise
         ELSE LET prediction == ModelPredict(m, features)
              IN  Ok(IF prediction <= 10000 THEN prediction * 100 ELSE prediction)

\* ------------------------------------------------------------------ /predict

ErrorResponse == [error |-> "exception", status |-> 500]

IsError(r) == "error" \in DOMAIN r

PredictClamp(score) == Min(Pts(100), Max(0, score))

\* Lines 160-168: the encoder and the model call, for a loaded model.
LearnedScore(m, donor, recipient) ==
    IF prepare_features(donor, recipient).raised THEN Raise
    ELSE ModelScore(m, prepare_features(donor, recipient).val)

WithPath(result, path) ==
    [raised |-> result.raised, val |-> result.val, path |-> path]

\* Lines 159-175: the score of a compatible donor without hard stops, and the
\* path that produced it.  prepare_features is called outside the try.
PredictScore(m, donor, recipient) ==
    IF m.kind = "none"
    THEN WithPath(calculate_rule_based_score(donor, recipient), "rule")
    ELSE IF prepare_features(donor, recipient).raised
    THEN WithPath(Raise, "none")
    ELSE IF ~LearnedScore(m, donor, recipient).raised
    THEN WithPath(LearnedScore(m, donor, recipient), "learned")
    ELSE WithPath(calculate_rule_based_score(donor, recipient), "rule")

predict(m, data) ==
    LET donor == Get(data, "donor", [x \in {} |-> FALSE])
        recipient == Get(data, "recipient", [x \in {} |-> FALSE])
    IN  IF ~IsMapping(recipient) THEN [resp |-> ErrorResponse, log |-> <<>>]
        ELSE LET compatible_types ==
                     get_compatible_donor_types(Get(recipient, "bloodType", ""))
             IN  IF ~IsMapping(donor) THEN [resp |-> ErrorResponse, log |-> <<>>]
                 ELSE IF ~InSeq(Get(donor, "bloodType", "None"), compatible_types)
                 THEN [resp |-> [compatible |-> FALSE, score |-> 0,
                                 reason |-> <<"Blood type incompatible">>],
                       log |-> <<>>]
                 ELSE LET hard_stops == check_hard_stops(donor)
                      IN  IF hard_stops # <<>>
                          THEN [resp |-> [compatible |-> FALSE, score |-> 0,
                                          reason |-> <<"Permanent deferral">> \o hard_stops],
                                log |-> <<>>]
                          ELSE LET sc == PredictScore(m, donor, recipient)
                               IN  IF sc.raised
                                   THEN [resp |-> ErrorResponse, log |-> <<>>]
                                   ELSE [resp |-> [compatible |-> TRUE,
                                                   score |-> PredictClamp(sc.val),
                                                   warnings |-> check_temporary_deferrals(donor),
                                                   model_used |-> m.kind # "none"],
                                         log |-> <<[i |-> 1, path |-> sc.path,
                                                    score |-> sc.val]>>]

\* ------------------------------------------------------------------- /match

\* Lines 253-273: the score of one surviving donor and the path that
\* produced it.  A failure of the encoder or of the model is answered with
\* the rule-based score (lines 267 and 273); what the rule-based scorer
\* raises there leaves the loop.
MatchScore(m, donor, recipient) ==
    IF m.kind # "none" /\ ~LearnedScore(m, donor, recipient).raised
    THEN WithPath(LearnedScore(m, donor, recipient), "learned")
    ELSE WithPath(calculate_rule_based_score(donor, recipient), "rule")

\* round(score, 1): to the nearest tenth, an exact half to the even tenth.
Round1(score) ==
    LET q == score \div 1000
        r == score % 1000
    IN  IF r < 500 THEN q * 1000
        ELSE IF r > 500 THEN (q + 1) * 1000
        ELSE IF q % 2 = 0 THEN q * 1000
        ELSE (q + 1) * 1000

TierOf(score) ==
    IF score >= Pts(80) THEN "high"
    ELSE IF score >= Pts(50) THEN "medium"
    ELSE "low"

PriorityOf_AfterRounding(score) == TierOf(Round1(score))

PriorityOf(score) == TierOf(score)

\* donor.get('id') or donor.get('donorId')
DonorId(donor) ==
    IF "id" \in DOMAIN donor THEN donor.id ELSE Get(donor, "donorId", "None")

MatchEntry(donor, score) ==
    LET warnings == check_temporary_deferrals(donor)
    IN  [donorId |-> DonorId(donor),
         donorName |-> Get(donor, "donorName", "Anonymous"),
         donorBloodType |-> Get(donor, "bloodType", "None"),
         donorLocation |-> Get(donor, "location", "Unknown"),
         donorContact |-> Get(donor, "contactNumber", "N/A"),
         donorAvailability |-> Get(donor, "availability", "N/A"),
         compatibilityScore |-> Round1(score),
         priority |-> PriorityOf(score),
         isEligible |-> Len(warnings) = 0,
         warnings |-> warnings,
         matchReasons |-> << <<"Blood type", Get(donor, "bloodType", "None"),
                               "compatible">> >>]

\* The loop of lines 237-298 from donor i on.  log is what the loop prints
\* for each donor: the skip, or the score, its path and the priority.
RECURSIVE MatchLoop(_, _, _, _, _, _, _)
MatchLoop(m, recipient, compatible_types, donors, i, matches, printed) ==
    IF i > Len(donors) THEN [raised |-> FALSE, matches |-> matches, log |-> printed]
    ELSE LET donor == donors[i]
         IN  IF ~IsMapping(donor)
             THEN [raised |-> TRUE, matches |-> <<>>, log |-> printed]
             ELSE IF ~InSeq(Get(donor, "bloodType", "None"), compatible_types)
             THEN MatchLoop(m, recipient, compatible_types, donors, i + 1, matches,
                            Append(printed, [i |-> i, path |-> "skipped-blood", score |-> 0]))
             ELSE IF check_hard_stops(donor) # <<>>
             THEN MatchLoop(m, recipient, compatible_types, donors, i + 1, matches,
                            Append(printed, [i |-> i, path |-> "skipped-hard-stop", score |-> 0]))
             ELSE LET sc == MatchScore(m, donor, recipient)
                  IN  IF sc.raised
                      THEN [raised |-> TRUE, matches |-> <<>>, log |-> printed]
                      ELSE MatchLoop(m, recipient, compatible_types, donors, i + 1,
                                     Append(matches, MatchEntry(donor, sc.val)),
                                     Append(printed, [i |-> i, path |-> sc.path,
                                                      score |-> sc.val]))

\* matches.sort(key=compatibilityScore, reverse=True): list.sort is stable
\* and reverse=True keeps the original order of equal keys.
RECURSIVE InsertDesc(_, _)
InsertDesc(sorted, x) ==
    IF sorted = <<>> THEN <<x>>
    ELSE IF Head(sorted).compatibilityScore >= x.compatibilityScore
         THEN <<Head(sorted)>> \o InsertDesc(Tail(sorted), x)
         ELSE <<x>> \o sorted

RECURSIVE SortFrom(_, _, _)
SortFrom(matches, i, sorted) ==
    IF i > Len(matches) THEN sorted
    ELSE SortFrom(matches, i + 1, InsertDesc(sorted, matches[i]))

RECURSIVE InsertDescBeforeEqual(_, _)
InsertDescBeforeEqual(sorted, x) ==
    IF sorted = <<>> THEN <<x>>
    ELSE IF Head(sorted).compatibilityScore > x.compatibilityScore
         THEN <<Head(sorted)>> \o InsertDescBeforeEqual(Tail(sorted), x)
         ELSE <<x>> \o sorted

RECURSIVE SortFromBeforeEqual(_, _, _)
SortFromBeforeEqual(matches, i, sorted) ==
    IF i > Len(matches) THEN sorted
    ELSE SortFromBeforeEqual(matches, i + 1, InsertDescBeforeEqual(sorted, matches[i]))

SortMatches_Unstable(matches) == SortFromBeforeEqual(matches, 1, <<>>)

SortMatches(matches) == SortFrom(matches, 1, <<>>)

match_donors_IdFromClock(m, data, now) ==
    LET recipient == Get(data, "recipientRequest", [x \in {} |-> FALSE])
        donors == Get(data, "availableDonors", <<>>)
    IN  IF ~IsMapping(recipient) THEN [resp |-> ErrorResponse, log |-> <<>>]
        ELSE LET compatible_types ==
                     get_compatible_donor_types(Get(recipient, "bloodType", ""))
                 loop == MatchLoop(m, recipient, compatible_types, donors, 1, <<>>, <<>>)
             IN  IF loop.raised THEN [resp |-> ErrorResponse, log |-> loop.log]
                 ELSE LET matches == SortMatches(loop.matches)
                      IN  [resp |-> [requestId |-> IF "id" \in DOMAIN recipient THEN recipient.id ELSE now,
                                     recipientName |-> Get(recipient, "userName", "None"),
                                     bloodTypeNeeded |-> Get(recipient, "bloodType", "None"),
                                     urgency |-> Get(recipient, "urgency", "None"),
                                     matches |-> matches,
                                     totalMatchesFound |-> Len(matches),
                                     modelUsed |-> m.kind # "none",
                                     timestamp |-> now],
                           log |-> loop.log]

match_donors(m, data, now) ==
    LET recipient == Get(data, "recipientRequest", [x \in {} |-> FALSE])
        donors == Get(data, "availableDonors", <<>>)
    IN  IF ~IsMapping(recipient) THEN [resp |-> ErrorResponse, log |-> <<>>]
        ELSE LET compatible_types ==
                     get_compatible_donor_types(Get(recipient, "bloodType", ""))
                 loop == MatchLoop(m, recipient, compatible_types, donors, 1, <<>>, <<>>)
             IN  IF loop.raised THEN [resp |-> ErrorResponse, log |-> loop.log]
                 ELSE LET matches == SortMatches(loop.matches)
                      IN  [resp |-> [requestId |-> Get(recipient, "id", "None"),
                                     recipientName |-> Get(recipient, "userName", "None"),
                                     bloodTypeNeeded |-> Get(recipient, "bloodType", "None"),
                                     urgency |-> Get(recipient, "urgency", "None"),
                                     matches |-> matches,
                                     totalMatchesFound |-> Len(matches),
                                     modelUsed |-> m.kind # "none",
                                     timestamp |-> now],
                           log |-> loop.log]

\* ------------------------------------------------------------------- inputs

AllRh == [C |-> TRUE, c |-> TRUE, E |-> TRUE, e |-> TRUE]

DonorAnn == [id |-> "d1", donorName |-> "Ann", bloodType |-> "O-"]

DonorBob ==
    [id |-> "d2", bloodType |-> "AB+", totalDonations |-> 6,
     willingForEmergency |-> TRUE, rhVariants |-> [C |-> TRUE, e |-> TRUE],
     kell |-> TRUE]

DonorCy ==
    [donorId |-> "d3", bloodType |-> "A+", recentTattoo |-> TRUE,
     willingForEmergency |-> TRUE]

DonorDee == [id |-> "d4", bloodType |-> "O-", willingForEmergency |-> TRUE]

DonorHiv == [id |-> "d5", bloodType |-> "O-", hivStatus |-> TRUE]

DonorIvHepB ==
    [id |-> "d6", bloodType |-> "AB+", ivDrugUse |-> TRUE, hepatitisB |-> TRUE]

\* rhVariants is null.
DonorBadRh == [id |-> "d7", bloodType |-> "O-", rhVariants |-> NotAMapping]

WellFormedDonors ==
    {DonorAnn, DonorBob, DonorCy, DonorDee, DonorHiv, DonorIvHepB}

MatchDonors == WellFormedDonors \cup {DonorBadRh, NotAMapping}

\* Every combination of the five permanent-deferral flags.
ScreenedDonors ==
    [id : {"h"}, bloodType : {"O-", "B+"}, hivStatus : BOOLEAN,
     hepatitisB : BOOLEAN, hepatitisC : BOOLEAN, htlv : BOOLEAN,
     ivDrugUse : BOOLEAN]

TypedDonors == [id : {"t"}, bloodType : BloodTypes \cup {"Z+"}]

PredictDonors == MatchDonors \cup ScreenedDonors \cup TypedDonors

RecipientCritical ==
    [id |-> "r1", userName |-> "Pat", bloodType |-> "AB+", urgency |-> "critical",
     rhVariants |-> AllRh, kell |-> TRUE, duffy |-> TRUE, kidd |-> TRUE]

RecipientAPlus == [id |-> "r2", bloodType |-> "A+", urgency |-> "high"]

\* No id: requestId is null.
RecipientONeg == [userName |-> "Olu", bloodType |-> "O-"]

\* An urgency outside UrgencyOrder.
RecipientUrgent == [id |-> "r4", bloodType |-> "AB+", urgency |-> "urgent"]

RecipientNoType == [id |-> "r5", urgency |-> "standard"]

MatchRecipients ==
    {RecipientCritical, RecipientAPlus, RecipientONeg, RecipientUrgent,
     RecipientNoType}

TypedRecipients == [id : {"t"}, bloodType : BloodTypes \cup {"Z+"}]

PredictRecipients == MatchRecipients \cup TypedRecipients

DonorLists == UNION {[1..n -> MatchDonors] : n \in 0..MaxDonors}

PredictRequests ==
    {[op |-> "predict", data |-> [donor |-> d, recipient |-> r]] :
        d \in PredictDonors, r \in PredictRecipients}

MatchRequests ==
    {[op |-> "match", data |-> [recipientRequest |-> r, availableDonors |-> ds]] :
        r \in MatchRecipients, ds \in DonorLists}

Requests == PredictRequests \cup MatchRequests

\* Requests a client sends after its first one.
FollowUps ==
    {[op |-> "predict", data |-> [donor |-> DonorBob, recipient |-> RecipientCritical]],
     [op |-> "match",
      data |-> [recipientRequest |-> RecipientAPlus,
                availableDonors |-> IF MaxDonors >= 1 THEN <<DonorCy>> ELSE <<>>]]}

\* ------------------------------------------------------------------ actions

\* No response yet to the request in hand.
NoResponse == [status |-> 0]

\* The state once load_model() has returned (the unpickled model, or None
\* when the download or the load failed) and a client holds a request.
\* The handlers keep nothing from one request to the next, so the first
\* request ranges over all of Requests and later ones over FollowUps.
Init ==
    /\ model \in {NoModel} \cup ModelHandles
    /\ clock = 0
    /\ request \in Requests
    /\ response = NoResponse
    /\ previous = NoResponse
    /\ log = <<>>

Tick ==
    /\ clock < MaxClock
    /\ clock' = clock + 1
    /\ UNCHANGED <<model, request, response, previous, log>>

\* POST /predict with the request in hand.
Predict ==
    /\ request.op = "predict"
    /\ LET out == predict(model, request.data)
       IN  /\ previous' = response
           /\ response' = out.resp
           /\ log' = out.log
    /\ UNCHANGED <<model, clock, request>>

\* POST /match with the request in hand; sent again, previous keeps the
\* response to the call before.
Match ==
    /\ request.op = "match"
    /\ LET out == match_donors(model, request.data, clock)
       IN  /\ previous' = response
           /\ response' = out.resp
           /\ log' = out.log
    /\ UNCHANGED <<model, clock, request>>

\* The client turns to another request.
Receive ==
    /\ response # NoResponse
    /\ \E req \in FollowUps :
        /\ req # request
        /\ request' = req
        /\ response' = NoResponse
        /\ previous' = NoResponse
        /\ log' = <<>>
    /\ UNCHANGED <<model, clock>>

Next == Tick \/ Predict \/ Match \/ Receive

Spec == Init /\ [][Next]_vars

\* -------------------------------------------- the rule-based scorer alone

ScoreDonors ==
    [bloodType : {"O-", "AB+"},
     rhVariants : [C : BOOLEAN, c : BOOLEAN, E : BOOLEAN, e : BOOLEAN],
     kell : BOOLEAN, duffy : BOOLEAN, kidd : BOOLEAN,
     totalDonations : {0, 5, 6},
     willingForEmergency : BOOLEAN]

ScoreRecipients ==
    [bloodType : {"AB+"},
     urgency : {"critical", "high"},
     rhVariants : {AllRh, [C |-> TRUE, c |-> FALSE, E |-> FALSE, e |-> TRUE],
                   [C |-> FALSE, c |-> FALSE, E |-> FALSE, e |-> FALSE]},
     kell : BOOLEAN, duffy : BOOLEAN, kidd : BOOLEAN]

ScoreRequests ==
    {[op |-> "score", data |-> [donor |-> d, recipient |-> r]] :
        d \in ScoreDonors \cup {DonorAnn, DonorBob, DonorDee},
        r \in ScoreRecipients \cup {RecipientAPlus, RecipientONeg}}

InitScore ==
    /\ model = NoModel
    /\ clock = 0
    /\ request \in ScoreRequests
    /\ response = NoResponse
    /\ previous = NoResponse
    /\ log = <<>>

\* calculate_rule_based_score(donor, recipient) on the pair in hand.
RuleScore ==
    /\ request.op = "score"
    /\ response = NoResponse
    /\ response' = calculate_rule_based_score(request.data.donor, request.data.recipient)
    /\ UNCHANGED <<model, clock, request, previous, log>>

SpecScore == InitScore /\ [][RuleScore]_vars

\* ------------------------------------------------------------- properties

Served == response # NoResponse

IsPredict == request.op = "predict" /\ Served

IsMatch == request.op = "match" /\ Served

Recipient ==
    IF request.op = "match" THEN request.data.recipientRequest
    ELSE request.data.recipient

Donors == request.data.availableDonors

HardStopKeys == {"hivStatus", "hepatitisB", "hepatitisC", "htlv", "ivDrugUse"}

HardStopName(k) ==
    CASE k = "hivStatus" -> "HIV positive"
      [] k = "hepatitisB" -> "Hepatitis B"
      [] k = "hepatitisC" -> "Hepatitis C"
      [] k = "htlv" -> "HTLV positive"
      [] k = "ivDrugUse" -> "IV drug use history"

HasHardStop(d) == IsMapping(d) /\ \E k \in HardStopKeys : Flag(d, k)

\* The classical ABO/Rh rule, from the antigens of the two types.
AboAntigens(t) ==
    CASE t \in {"O-", "O+"} -> {}
      [] t \in {"A-", "A+"} -> {"A"}
      [] t \in {"B-", "B+"} -> {"B"}
      [] t \in {"AB-", "AB+"} -> {"A", "B"}

RhNegative(t) == t \in {"O-", "A-", "B-", "AB-"}

ClassicalRule(d, r) ==
    /\ d \in BloodTypes
    /\ r \in BloodTypes
    /\ AboAntigens(d) \subseteq AboAntigens(r)
    /\ RhNegative(d) \/ ~RhNegative(r)

DonorType(d) == Get(d, "bloodType", "None")

RecipientType == Get(Recipient, "bloodType", "")

Scored(entry) == entry.path \in {"learned", "rule"}

InRange(score) == 0 <= score /\ score <= Pts(100)

MatchIds == {response.matches[j].donorId : j \in 1..Len(response.matches)}

\* C1: a donor with a permanent-deferral flag set is never in the matches of
\* /match and is never scored, whatever the model; /predict answers such a
\* donor of a compatible blood type with compatible=false, score 0 and a
\* reason that names every flag that is set.
C1_HardStopExcluded ==
    /\ IsMatch =>
        \A i \in 1..Len(Donors) :
            HasHardStop(Donors[i]) =>
                /\ ~IsError(response) => DonorId(Donors[i]) \notin MatchIds
                /\ \A n \in 1..Len(log) : log[n].i = i => ~Scored(log[n])
    /\ (/\ IsPredict
        /\ HasHardStop(request.data.donor)
        /\ ClassicalRule(DonorType(request.data.donor), RecipientType)) =>
        /\ ~IsError(response)
        /\ response.compatible = FALSE
        /\ response.score = 0
        /\ log = <<>>
        /\ \A k \in HardStopKeys :
               Flag(request.data.donor, k) => InSeq(HardStopName(k), response.reason)

\* A loaded model ranks a list in which a compatible donor carries a hard
\* stop and another donor survives.
C1_Witness ==
    /\ IsMatch
    /\ model.kind = "proba"
    /\ ~IsError(response)
    /\ Len(response.matches) >= 1
    /\ \E i \in 1..Len(Donors) :
           /\ HasHardStop(Donors[i])
           /\ ClassicalRule(DonorType(Donors[i]), RecipientType)

\* C2: every score returned lies in [0,100]: the score of a /predict
\* response and the compatibilityScore of every match of a /match response.
C2_ScoreInRange ==
    /\ (IsPredict /\ ~IsError(response)) => InRange(response.score)
    /\ (IsMatch /\ ~IsError(response)) =>
        \A j \in 1..Len(response.matches) :
            InRange(response.matches[j].compatibilityScore)

\* The donor ids of the matches returned with this compatibilityScore, in
\* the order of the response.
ReturnedWith(score) ==
    LET hits == SelectSeq(response.matches, LAMBDA x : x.compatibilityScore = score)
    IN  [n \in 1..Len(hits) |-> hits[n].donorId]

\* The ids of the donors that were scored to this compatibilityScore, in the
\* order of the input donor list.
ScoredTo(score) ==
    LET hits == SelectSeq(log, LAMBDA e : Scored(e) /\ Round1(e.score) = score)
    IN  [n \in 1..Len(hits) |-> DonorId(Donors[hits[n].i])]

\* C3: the matches of /match are sorted non-increasing by compatibilityScore
\* and the matches of equal score are in the order of the input donor list.
C3_SortedStable ==
    (IsMatch /\ ~IsError(response)) =>
        /\ \A a, b \in 1..Len(response.matches) :
               a < b => response.matches[a].compatibilityScore
                            >= response.matches[b].compatibilityScore
        /\ \A a \in 1..Len(response.matches) :
               ReturnedWith(response.matches[a].compatibilityScore)
                   = ScoredTo(response.matches[a].compatibilityScore)

\* Two different donors come back with the same score.
C3_Witness ==
    /\ IsMatch
    /\ ~IsError(response)
    /\ \E a, b \in 1..Len(response.matches) :
           /\ a < b
           /\ response.matches[a].donorId # response.matches[b].donorId
           /\ response.matches[a].compatibilityScore
                  = response.matches[b].compatibilityScore

\* C4: a donor passes the blood-type filter iff the classical ABO/Rh rule
\* lets its type donate to the recipient's; with an unrecognized or missing
\* recipient type no donor passes.
C4_ClassicalCompatibility ==
    /\ (IsPredict /\ IsMapping(request.data.donor)) =>
        ((~IsError(response) /\ response.compatible = FALSE
              /\ response.reason = <<"Blood type incompatible">>)
         <=> ~ClassicalRule(DonorType(request.data.donor), RecipientType))
    /\ IsMatch =>
        /\ \A n \in 1..Len(log) :
               log[n].path = "skipped-blood"
               <=> ~ClassicalRule(DonorType(Donors[log[n].i]), RecipientType)
        /\ (RecipientType \notin BloodTypes /\ ~IsError(response))
               => response.matches = <<>>

\* An O- donor is accepted for an AB+ recipient.
C4_Witness ==
    /\ IsPredict
    /\ IsMapping(request.data.donor)
    /\ DonorType(request.data.donor) = "O-"
    /\ RecipientType = "AB+"
    /\ ~IsError(response)
    /\ response.compatible

LearnedPathFails(donor) ==
    /\ model.kind # "none"
    /\ IsMapping(donor)
    /\ ClassicalRule(DonorType(donor), RecipientType)
    /\ ~HasHardStop(donor)
    /\ LearnedScore(model, donor, Recipient).raised
    /\ ~calculate_rule_based_score(donor, Recipient).raised

\* C5: with a model loaded, a failure of the learned path for a compatible
\* donor without hard stops is never an error response: /predict and /match
\* answer with the rule-based score of the pair.
C5_LearnedFailureFallsBack ==
    /\ (IsPredict /\ LearnedPathFails(request.data.donor)) =>
        /\ ~IsError(response)
        /\ response.score
               = calculate_rule_based_score(request.data.donor, Recipient).val
    /\ (IsMatch /\ \A i \in 1..Len(Donors) : IsMapping(Donors[i])) =>
        \A i \in 1..Len(Donors) :
            LearnedPathFails(Donors[i]) =>
                /\ ~IsError(response)
                /\ \E j \in 1..Len(response.matches) :
                       /\ response.matches[j].donorId = DonorId(Donors[i])
                       /\ response.matches[j].compatibilityScore
                              = Round1(calculate_rule_based_score(Donors[i], Recipient).val)

BadRecord(d) ==
    \/ ~IsMapping(d)
    \/ ~IsMapping(Get(d, "rhVariants", [x \in {} |-> FALSE]))

WithoutBad(ds) == SelectSeq(ds, LAMBDA d : ~BadRecord(d))

\* C6: a donor list with one bad record among well-formed donors is ranked
\* without error, and the matches are those of the list without the record.
C6_BadRecordSkipped ==
    (/\ IsMatch
     /\ Cardinality({i \in 1..Len(Donors) : BadRecord(Donors[i])}) = 1
     /\ Len(WithoutBad(Donors)) >= 1) =>
        /\ ~IsError(response)
        /\ response.matches
               = match_donors(model,
                              [recipientRequest |-> Recipient,
                               availableDonors |-> WithoutBad(Donors)],
                              clock).resp.matches

Twice == IsMatch /\ previous # NoResponse

\* C7 as stated: the second response to the same /match request equals the
\* first in every field.
C7_IdenticalResponse == Twice => response = previous

\* C7, amended: the second response equals the first in every field other
\* than timestamp.
C7_IdenticalButTimestamp ==
    Twice =>
        /\ DOMAIN response = DOMAIN previous
        /\ \A k \in DOMAIN response \ {"timestamp"} : response[k] = previous[k]

\* The same request is answered twice, a second apart, with matches.
C7_Witness ==
    /\ Twice
    /\ ~IsError(response)
    /\ response.timestamp # previous.timestamp
    /\ Len(response.matches) >= 1

ScoreDonor == request.data.donor

ScoreRecipient == request.data.recipient

SharedRh ==
    {v \in {"C", "c", "E", "e"} :
        Flag(ScoreDonor.rhVariants, v) /\ Flag(ScoreRecipient.rhVariants, v)}

SharedAntigens ==
    {k \in {"kell", "duffy", "kidd"} : Flag(ScoreDonor, k) /\ Flag(ScoreRecipient, k)}

ExpectedRuleScore ==
    Min(100,
        50
        + (IF ScoreDonor.bloodType = ScoreRecipient.bloodType THEN 20 ELSE 0)
        + 3 * Cardinality(SharedRh)
        + 3 * Cardinality(SharedAntigens)
        + (IF ScoreDonor.totalDonations > 5 THEN 5 ELSE 0)
        + (IF Get(ScoreRecipient, "urgency", "None") = "critical"
              /\ ScoreDonor.willingForEmergency THEN 10 ELSE 0))

FullRecord ==
    /\ request.op = "score"
    /\ Served
    /\ ScoreDonor \in ScoreDonors
    /\ ScoreRecipient \in ScoreRecipients

\* C8: the rule-based score is min(100, 50 + 20 for equal blood types + 3 for
\* each of C, c, E, e in both rhVariants + 3 for each of kell, duffy, kidd in
\* both + 5 for more than 5 donations + 10 for a critical request and a donor
\* willing for emergency).
C8_RuleScoreFormula ==
    FullRecord =>
        /\ ~response.raised
        /\ response.val = Pts(ExpectedRuleScore)

\* An exact blood-type match with exactly 5 donations, no shared antigen and
\* a donor not willing for emergency scores 70.
C8_Witness ==
    /\ FullRecord
    /\ ScoreDonor.bloodType = ScoreRecipient.bloodType
    /\ SharedRh = {}
    /\ SharedAntigens = {}
    /\ ScoreDonor.totalDonations = 5
    /\ ScoreRecipient.urgency = "critical"
    /\ ~ScoreDonor.willingForEmergency
    /\ response.val = Pts(70)

\* C9: modelUsed is true only if the returned scores came from the learned
\* model, and false whenever a score came from the rule-based scorer.
C9_ModelUsedMeansLearned ==
    (IsMatch /\ ~IsError(response)) =>
        \A n \in 1..Len(log) :
            Scored(log[n]) => (response.modelUsed <=> log[n].path = "learned")

\* C10 as stated: priority follows the compatibilityScore of the result.
C10_PriorityFromRounded ==
    (IsMatch /\ ~IsError(response)) =>
        \A j \in 1..Len(response.matches) :
            response.matches[j].priority
                = (IF response.matches[j].compatibilityScore >= Pts(80) THEN "high"
                   ELSE IF response.matches[j].compatibilityScore >= Pts(50) THEN "medium"
                   ELSE "low")

\* C10, amended: priority follows the score before it is rounded to one
\* decimal: high iff that score >= 80, medium iff 50 <= score < 80, low iff
\* score < 50.
C10_PriorityFromUnrounded ==
    (IsMatch /\ ~IsError(response)) =>
        \A j \in 1..Len(response.matches) :
            \E n \in 1..Len(log) :
                /\ Scored(log[n])
                /\ DonorId(Donors[log[n].i]) = response.matches[j].donorId
                /\ Round1(log[n].score) = response.matches[j].compatibilityScore
                /\ response.matches[j].priority = "high" <=> log[n].score >= Pts(80)
                /\ response.matches[j].priority = "medium"
                       <=> (Pts(50) <= log[n].score /\ log[n].score < Pts(80))
                /\ response.matches[j].priority = "low" <=> log[n].score < Pts(50)

\* A score of 79.96 comes back as 80.0 with priority medium.
C10_Witness ==
    /\ IsMatch
    /\ ~IsError(response)
    /\ \E j \in 1..Len(response.matches) :
           /\ response.matches[j].compatibilityScore = Pts(80)
           /\ response.matches[j].priority = "medium"

====
